---- MODULE Spec2Model ----
(***************************************************************************)
(* Travel planner: the store connection and its three read queries         *)
(* (database.py), the aggregation tool _search_all_data and the entry      *)
(* points plan_trip / chat with the bounded agent loop (agent.py), the     *)
(* Route Advisor and the login / Clear Chat / logout session (app.py,      *)
(* auth.py).                                                               *)
(*                                                                         *)
(* Text is a sequence of one-character strings.  Prices are whole rupees.  *)
(* A budget multiplier m is carried as the integer 10*m (0.7 -> 7).        *)
(***************************************************************************)
EXTENDS Integers, Sequences, FiniteSets, TLC

VARIABLES
    flightsTbl,   \* rows of table flights
    hotelsTbl,    \* rows of table hotels
    placesTbl,    \* rows of table places
    conn,         \* state of the psycopg2 connection: "ok" | "severed"
    txn,          \* transaction state of the connection: "idle" | "open" | "failed"
    connects,     \* number of times _connect has run
    hasDb,        \* self.db of the agent is set
    call,         \* record of the last Query Layer / aggregation call
    pc,           \* position of the running plan_trip / chat request
    entry,        \* entry point of the request: "plan_trip" | "chat"
    attempt,      \* attempt number of the retry decorator of plan_trip
    iterations,   \* AgentExecutor iteration counter
    elapsed,      \* AgentExecutor elapsed seconds
    quotaLeft,    \* how many of the next backend calls signal quota exhaustion
    quotaPlan,    \* quotaLeft as it was when the request started
    llmCalls,     \* backend calls made by the current request
    lastObs,      \* most recent Observation of the request
    outcome,      \* what the finished request handed to its caller
    routes,       \* st.session_state.available_routes, the route index
    advice,       \* record of the last get_alternative_routes call
    user,         \* st.session_state.user, "none" when logged out
    agentUp,      \* st.session_state.agent is not None
    memory,       \* buffer of the agent's ConversationBufferMemory
    ui,           \* record of the last presentation-layer event
    tools,        \* names of the tools of the session's agent (self.tools)
    trip,         \* the Generate Trip Plan handler: its position and what it did
    budgetCall    \* record of the last calculate_budget call

vars == <<flightsTbl, hotelsTbl, placesTbl, conn, txn, connects, hasDb, call,
          pc, entry, attempt, iterations, elapsed, quotaLeft, quotaPlan,
          llmCalls, lastObs, outcome, routes, tools, trip, budgetCall, advice, user, agentUp,
          memory, ui>>

storeVars == <<flightsTbl, hotelsTbl, placesTbl>>
agentVars == <<pc, entry, attempt, iterations, elapsed, quotaLeft, quotaPlan,
               llmCalls, lastObs, outcome>>
sessionVars == <<routes, tools, trip, budgetCall, advice, user, agentUp, memory, ui>>

(***************************************************************************)
(* Bounds of the model                                                     *)
(***************************************************************************)
MaxFlightRows == 3
MaxHotelRows == 3
MaxPlaceRows == 2
MaxQuotaFailures == 2
MaxMemoryTurns == 2
MaxRouteOut == 6
MaxRouteIn == 6
BigFlightRows == 6
BigHotelRows == 6
BigPlaceRows == 9
MaxAmount == 3

(***************************************************************************)
(* Text                                                                    *)
(***************************************************************************)
LowerLetters == <<"a","b","c","d","e","f","g","h","i","j","k","l","m",
                  "n","o","p","q","r","s","t","u","v","w","x","y","z">>
UpperLetters == <<"A","B","C","D","E","F","G","H","I","J","K","L","M",
                  "N","O","P","Q","R","S","T","U","V","W","X","Y","Z">>

IsLower(c) == \E i \in 1..26 : LowerLetters[i] = c
IsUpper(c) == \E i \in 1..26 : UpperLetters[i] = c
IsCased(c) == IsLower(c) \/ IsUpper(c)

LetterIndex(c) == CHOOSE i \in 1..26 : LowerLetters[i] = c \/ UpperLetters[i] = c

\* str.lower() / str.upper() on one character
LowerChar(c) == IF IsCased(c) THEN LowerLetters[LetterIndex(c)] ELSE c
UpperChar(c) == IF IsCased(c) THEN UpperLetters[LetterIndex(c)] ELSE c

\* str.lower()
Lower(s) == [i \in 1..Len(s) |-> LowerChar(s[i])]

\* variant: the text is left in the case it was typed in
Title_AsTyped(s) == s

\* str.title(): a cased character is upper-cased when it starts a run of
\* cased characters and lower-cased otherwise
Title(s) == [i \in 1..Len(s) |->
               IF i > 1 /\ IsCased(s[i-1]) THEN LowerChar(s[i]) ELSE UpperChar(s[i])]

IsSpace(c) == c = " "

\* str.strip()
Strip(s) ==
    LET nonsp == {i \in 1..Len(s) : ~IsSpace(s[i])}
    IN IF nonsp = {} THEN <<>>
       ELSE LET lo == CHOOSE i \in nonsp : \A j \in nonsp : i <= j
                hi == CHOOSE i \in nonsp : \A j \in nonsp : j <= i
            IN SubSeq(s, lo, hi)

\* str.split("|"): the fields between the separators, always at least one
RECURSIVE SplitPipe(_)
SplitPipe(s) ==
    LET bars == {i \in 1..Len(s) : s[i] = "|"}
    IN IF bars = {} THEN <<s>>
       ELSE LET b == CHOOSE i \in bars : \A j \in bars : i <= j
            IN <<SubSeq(s, 1, b - 1)>> \o SplitPipe(SubSeq(s, b + 1, Len(s)))

\* "|".join(fields)
RECURSIVE JoinPipe(_)
JoinPipe(fs) ==
    IF Len(fs) = 0 THEN <<>>
    ELSE IF Len(fs) = 1 THEN fs[1]
    ELSE fs[1] \o <<"|">> \o JoinPipe(Tail(fs))

\* a NUL character in a query parameter makes psycopg2 raise ValueError
HasNul(s) == \E i \in 1..Len(s) : s[i] = "NUL"

Min(a, b) == IF a <= b THEN a ELSE b
Max(a, b) == IF a >= b THEN a ELSE b

RECURSIVE SumSeq(_)
SumSeq(s) == IF Len(s) = 0 THEN 0 ELSE Head(s) + SumSeq(Tail(s))

\* s[:n]
Take(s, n) == SubSeq(s, 1, Min(n, Len(s)))


\* str.split(",")
RECURSIVE SplitComma(_)
SplitComma(s) ==
    LET cs == {i \in 1..Len(s) : s[i] = ","}
    IN IF cs = {} THEN <<s>>
       ELSE LET b == CHOOSE i \in cs : \A j \in cs : i <= j
            IN <<SubSeq(s, 1, b - 1)>> \o SplitComma(SubSeq(s, b + 1, Len(s)))

\* Python None
NoneVal == -1

\* truth value of an optional number: None and 0 are both false
Truthy(x) == x # NoneVal /\ x # 0

(***************************************************************************)
(* Store content.  Rows are drawn from fixed universes that hold equal     *)
(* prices, a route in the other direction, hotels on both sides of every   *)
(* price ceiling and below the star floor, and places with and without a   *)
(* category.                                                               *)
(***************************************************************************)
Pune == <<"P","u","n","e">>
Goa == <<"G","o","a">>

FlightPrices == <<4500, 3000, 4500, 6000, 3000, 5200>>

\* departure_time is a nullable TIMESTAMP column
Stamp == <<"2","0","2","5","-","0","1","-","0","1"," ","0","9",":","0","0",":","0","0">>
DepartureTimes == <<Stamp, <<"NULL">>, Stamp, Stamp, <<"NULL">>, Stamp>>

FlightRow(i) ==
    LET k == ((i - 1) % 6) + 1
    IN [id |-> i,
        from_city |-> IF k = 4 THEN Goa ELSE Pune,
        to_city |-> IF k = 4 THEN Pune ELSE Goa,
        departure_time |-> DepartureTimes[k],
        price |-> FlightPrices[k]]

FlightUniverse == {FlightRow(i) : i \in 1..MaxFlightRows}

HotelStars == <<4, 3, 4, 5, 2, 3>>
HotelPrices == <<4001, 3000, 6000, 8000, 1000, 3000>>
NullText == <<"NULL">>
HotelAmenities ==
    << <<"[","\"","w","\"",","," ","\"","p","\"","]">>,   \* json.dumps(["w","p"])
       <<"w",",","p">>,                               \* comma-delimited
       NullText,                                      \* SQL NULL
       <<"[","]">>,                                   \* json.dumps([])
       <<"w">>,
       <<"a",",","b",",","c",",","d",",","e",",","f">> >>

HotelRow(i) ==
    LET k == ((i - 1) % 6) + 1
    IN [id |-> i, city |-> Goa, stars |-> HotelStars[k],
        price_per_night |-> HotelPrices[k], amenities |-> HotelAmenities[k]]

HotelUniverse == {HotelRow(i) : i \in 1..MaxHotelRows}

PlaceTypes == << <<"b","e","a","c","h">>, NullText, <<"f","o","r","t">>, <<"b","e","a","c","h">> >>
PlaceRatings == <<450, 400, 300, 380>>     \* rating * 100

PlaceRow(i) ==
    LET k == ((i - 1) % 4) + 1
    IN [id |-> i, city |-> Goa, type |-> PlaceTypes[k], rating |-> PlaceRatings[k]]

PlaceUniverse == {PlaceRow(i) : i \in 1..MaxPlaceRows}

(***************************************************************************)
(* Query Layer (database.py)                                               *)
(***************************************************************************)
\* All sequences that list the rows of S in non-decreasing key order; rows
\* with equal keys may come in any order (ORDER BY leaves ties open).
RECURSIVE SortedSeqs(_, _)
SortedSeqs(S, key) ==
    IF S = {} THEN {<<>>}
    ELSE LET least == {m \in S : \A x \in S : key[m] <= key[x]}
         IN UNION {{<<m>> \o t : t \in SortedSeqs(S \ {m}, key)} : m \in least}

\* cursor.execute: what the statement does on a connection in state (c, t);
\* fault is a server-side error hitting this statement
ExecStatus(c, t, params, fault) ==
    IF \E i \in 1..Len(params) : HasNul(params[i]) THEN "ValueError"
    ELSE IF c # "ok" THEN "OperationalError"
    ELSE IF t = "failed" THEN "InFailedSqlTransaction"
    ELSE IF fault THEN "QueryError"
    ELSE "ok"

\* transaction state after the statement: no read commits or rolls back
TxnAfter(t, status) ==
    IF status = "ok" THEN "open"
    ELSE IF status \in {"QueryError", "InFailedSqlTransaction"} THEN "failed"
    ELSE t

\* variant: the clause misses the error of a lost connection
IsPsycopgError_NoOperational(status) ==
    status \in {"InFailedSqlTransaction", "QueryError"}

\* the except psycopg2.Error clause of the read operations
IsPsycopgError(status) ==
    status \in {"OperationalError", "InFailedSqlTransaction", "QueryError"}

\* what a read operation hands back for a statement status and its rows
ReadResult(t, status, rows) ==
    [rows |-> IF status = "ok" THEN rows ELSE <<>>,
     exc |-> IF status = "ok" \/ IsPsycopgError(status) THEN "none" ELSE status,
     status |-> status,
     executed |-> 1,
     txn |-> TxnAfter(t, status)]

\* variant: ORDER BY price DESC
FlightKey_Desc(S) == [r \in S |-> 0 - r.price]

\* ORDER BY price ASC
FlightKey(S) == [r \in S |-> r.price]

get_flights(c, t, fault, source, destination, max_price, limit) ==
    LET status == ExecStatus(c, t, <<source, destination>>, fault)
        match == {r \in flightsTbl :
                    /\ Lower(r.from_city) = Lower(source)
                    /\ Lower(r.to_city) = Lower(destination)
                    /\ (Truthy(max_price) => r.price <= max_price)}
    IN {ReadResult(t, status, Take(s, limit)) : s \in SortedSeqs(match, FlightKey(match))}

\* ORDER BY stars DESC, price_per_night ASC
HotelKey(S) == [r \in S |-> (5 - r.stars) * 1000000 + r.price_per_night]

get_hotels(c, t, fault, city, min_stars, max_price, limit) ==
    LET status == ExecStatus(c, t, <<city>>, fault)
        match == {r \in hotelsTbl :
                    /\ Lower(r.city) = Lower(city)
                    /\ r.stars >= min_stars
                    /\ (Truthy(max_price) => r.price_per_night <= max_price)}
    IN {ReadResult(t, status, Take(s, limit)) : s \in SortedSeqs(match, HotelKey(match))}

\* ORDER BY rating DESC
PlaceKey(S) == [r \in S |-> 500 - r.rating]

get_places(c, t, fault, city, min_rating, limit) ==
    LET status == ExecStatus(c, t, <<city>>, fault)
        match == {r \in placesTbl :
                    /\ Lower(r.city) = Lower(city)
                    /\ r.rating >= min_rating}
    IN {ReadResult(t, status, Take(s, limit)) : s \in SortedSeqs(match, PlaceKey(match))}


(***************************************************************************)
(* Aggregation tool (agent.py, _search_all_data)                           *)
(***************************************************************************)
\* One line of the result list.  Every line has the same fields; a line
\* uses the ones its text carries.
Line(tag) == [tag |-> tag, i |-> 0, s1 |-> <<>>, s2 |-> <<>>,
              n1 |-> 0, n2 |-> 0, list |-> <<>>]

\* format(x, ",.0f") of the fraction num/den: nearest integer, ties to even
RoundHalfEven(num, den) ==
    LET q == num \div den
        r == num % den
    IN IF 2 * r < den THEN q
       ELSE IF 2 * r > den THEN q + 1
       ELSE IF q % 2 = 0 THEN q ELSE q + 1

TierBudget == <<"b","u","d","g","e","t">>
TierModerate == <<"m","o","d","e","r","a","t","e">>
TierLuxury == <<"l","u","x","u","r","y">>

\* variant: the luxury tier is missing from the table
BudgetMultiplier10_NoLuxury(budget_level) ==
    IF budget_level = TierBudget THEN 7
    ELSE 10

\* {"budget": 0.7, "moderate": 1.0, "luxury": 1.5}.get(budget_level, 1.0), times 10
BudgetMultiplier10(budget_level) ==
    IF budget_level = TierBudget THEN 7
    ELSE IF budget_level = TierModerate THEN 10
    ELSE IF budget_level = TierLuxury THEN 15
    ELSE 10

\* max_hotel_price = 5000 * budget_multiplier
MaxHotelPrice(mult10) == (5000 * mult10) \div 10

\* strftime for a datetime, str(x) otherwise: a NULL timestamp prints as None
TimeText(x) == IF x = <<"NULL">> THEN <<"N","o","n","e">> ELSE x

\* flights[:3] as numbered lines under the FLIGHTS header, or the not-found line
FlightLines(flights, from_city, to_city) ==
    IF Len(flights) > 0
    THEN <<[Line("FLIGHTS") EXCEPT !.s1 = from_city, !.s2 = to_city]>>
         \o [k \in 1..Len(Take(flights, 3)) |->
               [Line("flight") EXCEPT !.i = k, !.n1 = RoundHalfEven(flights[k].price, 1),
                                      !.n2 = flights[k].id,
                                      !.s1 = TimeText(flights[k].departure_time)]]
         \o <<Line("blank")>>
    ELSE <<[Line("no_flights") EXCEPT !.s1 = from_city, !.s2 = to_city]>>

\* variant: the amenities are not cut
AmenityList_Uncut(amenities) ==
    IF amenities = NullText \/ amenities = <<>> THEN <<>>
    ELSE SplitComma(amenities)

\* h['amenities'].split(',') if h['amenities'] else [], cut to 5
AmenityList(amenities) ==
    IF amenities = NullText \/ amenities = <<>> THEN <<>>
    ELSE Take(SplitComma(amenities), 5)

RECURSIVE HotelItemLines(_, _)
HotelItemLines(hotels, k) ==
    IF k > Len(hotels) THEN <<>>
    ELSE <<[Line("hotel") EXCEPT !.i = k, !.n1 = hotels[k].price_per_night,
                                 !.n2 = hotels[k].stars],
           [Line("amenities") EXCEPT !.list = AmenityList(hotels[k].amenities)]>>
         \o HotelItemLines(hotels, k + 1)

\* variant: an empty hotels result appends nothing
HotelLines_Silent(hotels, to_city) ==
    IF Len(hotels) > 0
    THEN <<[Line("HOTELS") EXCEPT !.s1 = to_city]>>
         \o HotelItemLines(Take(hotels, 3), 1)
         \o <<Line("blank")>>
    ELSE <<>>

\* hotels[:3] under the HOTELS header, or the not-found line
HotelLines(hotels, to_city) ==
    IF Len(hotels) > 0
    THEN <<[Line("HOTELS") EXCEPT !.s1 = to_city]>>
         \o HotelItemLines(Take(hotels, 3), 1)
         \o <<Line("blank")>>
    ELSE <<[Line("no_hotels") EXCEPT !.s1 = to_city]>>

General == <<"g","e","n","e","r","a","l">>

\* p['type'] or 'general'
PlaceType(p) == IF p.type = NullText \/ p.type = <<>> THEN General ELSE p.type

\* keys of place_types in insertion order
RECURSIVE TypeOrder(_, _)
TypeOrder(places, seen) ==
    IF Len(places) = 0 THEN seen
    ELSE LET ty == PlaceType(Head(places))
         IN TypeOrder(Tail(places),
                      IF \E j \in 1..Len(seen) : seen[j] = ty THEN seen
                      ELSE Append(seen, ty))

\* place_types[ptype]: the places of one type in result order
PlacesOfType(places, ty) == SelectSeq(places, LAMBDA p : PlaceType(p) = ty)

RECURSIVE TypeGroupLines(_, _)
TypeGroupLines(places, types) ==
    IF Len(types) = 0 THEN <<>>
    ELSE LET plist == Take(PlacesOfType(places, Head(types)), 3)
         IN <<[Line("ptype") EXCEPT !.s1 = Head(types)]>>
            \o [k \in 1..Len(plist) |->
                  [Line("place") EXCEPT !.n1 = plist[k].rating, !.n2 = plist[k].id]]
            \o <<Line("blank")>>
            \o TypeGroupLines(places, Tail(types))

PlaceLines(places, to_city) ==
    IF Len(places) > 0
    THEN <<[Line("ATTRACTIONS") EXCEPT !.s1 = to_city]>>
         \o TypeGroupLines(places, Take(TypeOrder(places, <<>>), 5))
    ELSE <<[Line("no_places") EXCEPT !.s1 = to_city]>>

\* variant: the sum of the first two prices is divided by the number of rows
AvgFirstTwo_AllRows(prices) == <<SumSeq(Take(prices, 2)), Len(prices)>>

\* sum(prices of rows[:2]) / min(2, len(rows)) as the fraction <<num, den>>
AvgFirstTwo(prices) == <<SumSeq(Take(prices, 2)), Min(2, Len(prices))>>

FlightPricesOf(flights) == [k \in 1..Len(flights) |-> flights[k].price]
HotelPricesOf(hotels) == [k \in 1..Len(hotels) |-> hotels[k].price_per_night]

\* int(1500 * budget_multiplier), int(800 * budget_multiplier)
FoodPerDay(mult10) == (1500 * mult10) \div 10
TransportPerDay(mult10) == (800 * mult10) \div 10

\* the values of the budget calculation, or none when the section is left out
NoBudget == [present |-> FALSE, avg_flight |-> <<0, 1>>, avg_hotel |-> <<0, 1>>,
             round_trip |-> 0, hotel_night |-> 0, food |-> 0, transport |-> 0]

\* variant: the section is rendered with zeros when a result is empty
BudgetCalc_ZeroFilled(flights, hotels, mult10) ==
    IF Len(flights) > 0 /\ Len(hotels) > 0
    THEN LET af == AvgFirstTwo(FlightPricesOf(flights))
             ah == AvgFirstTwo(HotelPricesOf(hotels))
         IN [present |-> TRUE, avg_flight |-> af, avg_hotel |-> ah,
             round_trip |-> RoundHalfEven(2 * af[1], af[2]),
             hotel_night |-> RoundHalfEven(ah[1], ah[2]),
             food |-> FoodPerDay(mult10), transport |-> TransportPerDay(mult10)]
    ELSE [NoBudget EXCEPT !.present = TRUE]

BudgetCalc(flights, hotels, mult10) ==
    IF Len(flights) > 0 /\ Len(hotels) > 0
    THEN LET af == AvgFirstTwo(FlightPricesOf(flights))
             ah == AvgFirstTwo(HotelPricesOf(hotels))
         IN [present |-> TRUE, avg_flight |-> af, avg_hotel |-> ah,
             round_trip |-> RoundHalfEven(2 * af[1], af[2]),
             hotel_night |-> RoundHalfEven(ah[1], ah[2]),
             food |-> FoodPerDay(mult10), transport |-> TransportPerDay(mult10)]
    ELSE NoBudget

BudgetLines(b, budget_level) ==
    IF b.present
    THEN <<[Line("BUDGET") EXCEPT !.s1 = Title(budget_level)],
           [Line("round_trip") EXCEPT !.n1 = b.round_trip],
           [Line("hotel_night") EXCEPT !.n1 = b.hotel_night],
           [Line("food") EXCEPT !.n1 = b.food],
           [Line("transport") EXCEPT !.n1 = b.transport]>>
    ELSE <<>>


\* a Query Layer call as the aggregation issues it
Issued(op, a, b, floor, ceiling, limit) ==
    [op |-> op, a |-> a, b |-> b, floor |-> floor, ceiling |-> ceiling, limit |-> limit]

\* what one aggregation call did and returned
ToolBase == [raised |-> FALSE, kind |-> "none", lines |-> <<>>, detail |-> "none",
             txn |-> "idle", queries |-> <<>>, statuses |-> <<>>, executed |-> 0,
             flights |-> <<>>, hotels |-> <<>>, places |-> <<>>,
             budget |-> NoBudget, mult10 |-> 0,
             from_city |-> <<>>, to_city |-> <<>>, budget_level |-> <<>>,
             interests |-> <<>>]

\* variant: the tool catches only the store driver's errors
CaughtByTool_DriverOnly(exc) == IsPsycopgError(exc)

\* except Exception: every exception raised inside the try block is caught
CaughtByTool(exc) == TRUE

\* the error text returned for an exception raised inside the try block
ToolFailure(base, exc, t, queries, statuses) ==
    [base EXCEPT !.raised = ~CaughtByTool(exc), !.kind = "error", !.detail = exc,
                 !.txn = t, !.queries = queries, !.statuses = statuses,
                 !.executed = Len(queries)]

\* variant: the hotels section is rendered before the flights section
ReportLines_HotelsFirst(fl, hl, pl, bl, interests) ==
    hl \o fl \o pl \o bl \o <<[Line("interests") EXCEPT !.s1 = interests]>>

\* the result list in the order its sections are appended, joined by newlines
ReportLines(fl, hl, pl, bl, interests) ==
    fl \o hl \o pl \o bl \o <<[Line("interests") EXCEPT !.s1 = interests]>>

\* the fields of the query text, parts[3] when len(parts) > 3 else ""
InterestsOf(parts) == IF Len(parts) > 3 THEN Strip(parts[4]) ELSE <<>>

\* variant: the field count is tested after the flights lookup
Rejected_AfterLookup(kind, t) ==
    [ToolBase EXCEPT !.kind = kind, !.txn = TxnAfter(t, "ok"), !.executed = 1,
                     !.queries = <<Issued("get_flights", <<>>, <<>>, NoneVal, NoneVal, 5)>>,
                     !.statuses = <<"ok">>]

\* the early returns of the tool, 'Database not available' and 'Invalid
\* format...': taken before any Query Layer call
Rejected(kind, t) == [ToolBase EXCEPT !.kind = kind, !.txn = t]

\* _search_all_data(query) on a connection in state (c, t); faults[k] is a
\* server-side error hitting the k-th query.  The set of possible results.
SearchAllData(db, query, c, t, faults) ==
    IF ~db THEN {Rejected("nodb", t)}
    ELSE
    LET parts == SplitPipe(query)
    IN IF Len(parts) < 3 THEN {Rejected("invalid", t)}
       ELSE
       LET from_city == Title(Strip(parts[1]))
           to_city == Title(Strip(parts[2]))
           budget_level == Lower(Strip(parts[3]))
           interests == InterestsOf(parts)
           mult10 == BudgetMultiplier10(budget_level)
           ceiling == MaxHotelPrice(mult10)
           q1 == Issued("get_flights", from_city, to_city, NoneVal, NoneVal, 5)
           q2 == Issued("get_hotels", to_city, <<>>, 3, ceiling, 5)
           q3 == Issued("get_places", to_city, <<>>, 350, NoneVal, 15)
           base == [ToolBase EXCEPT !.from_city = from_city, !.to_city = to_city,
                                    !.budget_level = budget_level,
                                    !.interests = interests, !.mult10 = mult10]
       IN UNION {
            IF fr.exc # "none" THEN {ToolFailure(base, fr.exc, fr.txn, <<q1>>, <<fr.status>>)}
            ELSE UNION {
              IF hr.exc # "none" THEN {ToolFailure(base, hr.exc, hr.txn, <<q1, q2>>,
                                                         <<fr.status, hr.status>>)}
              ELSE {
                IF pr.exc # "none"
                THEN ToolFailure(base, pr.exc, pr.txn, <<q1, q2, q3>>,
                                 <<fr.status, hr.status, pr.status>>)
                ELSE LET b == BudgetCalc(fr.rows, hr.rows, mult10)
                     IN [base EXCEPT
                           !.kind = "report",
                           !.lines = ReportLines(FlightLines(fr.rows, from_city, to_city),
                                                 HotelLines(hr.rows, to_city),
                                                 PlaceLines(pr.rows, to_city),
                                                 BudgetLines(b, budget_level),
                                                 interests),
                           !.txn = pr.txn, !.queries = <<q1, q2, q3>>,
                           !.statuses = <<fr.status, hr.status, pr.status>>,
                           !.executed = 3,
                           !.flights = fr.rows, !.hotels = hr.rows, !.places = pr.rows,
                           !.budget = b]
                : pr \in get_places(c, hr.txn, faults[3], to_city, 350, 15)}
              : hr \in get_hotels(c, fr.txn, faults[2], to_city, 3, ceiling, 5)}
            : fr \in get_flights(c, t, faults[1], from_city, to_city, NoneVal, 5)}


(***************************************************************************)
(* The aggregation tool and the Query Layer called on their own            *)
(***************************************************************************)
NoRead == [rows |-> <<>>, exc |-> "none", status |-> "none", executed |-> 0,
           txn |-> "idle"]

\* the record kept of the last call: the state it started from, what was
\* asked and what came back
CallRecord(op, query, tool, read) ==
    [op |-> op, query |-> query, preConn |-> conn, preTxn |-> txn,
     preConnects |-> connects, preDb |-> hasDb, tool |-> tool, read |-> read]

NoCall == [op |-> "none", query |-> <<>>, preConn |-> "ok", preTxn |-> "idle",
           preConnects |-> 1, preDb |-> TRUE, tool |-> ToolBase, read |-> NoRead]

NulText == <<"NUL">>
Fun == <<"f","u","n">>

\* query texts handed to the tool
ToolQueries ==
    { JoinPipe(<<Pune, Goa, TierModerate, Fun>>),
      JoinPipe(<<<<" ","p","u","n","e"," ">>, <<"G","O","A">>,
                 <<" ","L","u","x","u","r","y"," ">>>>),
      JoinPipe(<<Pune, Goa, TierBudget>>),
      JoinPipe(<<Pune, Goa, <<"d","e","l","u","x","e">>, Fun>>),
      JoinPipe(<<Goa, Pune, TierModerate>>),
      JoinPipe(<<NulText, Goa, TierLuxury>>),
      JoinPipe(<<Pune, Goa>>),
      Pune,
      <<>> }

\* at most one server-side error per aggregation, at query k (0: none)
FaultAt(k) == [j \in 1..3 |-> j = k]

\* no Route Advisor call made, no presentation-layer event yet
NoAdvice == [called |-> FALSE, direct |-> FALSE, from_city |-> <<>>,
             to_city |-> <<>>, result |-> <<>>]
NoUi == [op |-> "none", prev |-> "none", input |-> <<>>, cleared |-> FALSE]

\* Chain.prep_outputs -> memory.save_context: the turn of a request whose
\* invoke returned is appended to the buffer.  A turn carries the user it
\* was recorded for and whether a Clear Chat has come after it.
SaveContext(buffer, owner) == Append(buffer, [owner |-> owner, old |-> FALSE])

ToolName == "search_all_travel_data"

\* variant: a second tool is registered next to the combined one
create_tools_Two(db) ==
    IF db THEN {ToolName, "search_flights"} ELSE {}

\* _create_tools: the one Tool, appended only when self.db is set
create_tools(db) == IF db THEN {ToolName} ELSE {}

\* TravelAgent(google_api_key): key is the key being there, ownDb the
\* TravelDatabase() of the constructor succeeding.  initialize_agent refuses
\* an empty tool list, so the constructor raises when self.db is None.
TravelAgentInit(key, ownDb) ==
    LET t == create_tools(ownDb)
    IN [ok |-> key /\ t # {}, tools |-> t, connected |-> key /\ ownDb]

\* no calculate_budget call made
NoBudgetCall == [called |-> FALSE]

\* trip_data of a session that fetched nothing yet
NoTripData == [flights |-> <<>>, hotels |-> <<>>, places |-> <<>>]

\* no trip_record built, no row written
NoRecord == [source_city |-> <<>>, destination_city |-> <<>>,
             itinerary |-> NoTripData, agent_response |-> "none"]

\* the Generate Trip Plan handler before it has run: its position, trip_data,
\* whether plan_trip has returned and with what, st.session_state.ai_response,
\* the calls of save_user_trip with their argument, the INSERT statements
\* sent, the row written, the exception the handler caught, and the page
NoTrip == [pc |-> "form", data |-> NoTripData, planned |-> FALSE, response |-> "none",
           stored |-> "none", saveCalls |-> 0, saveArg |-> NoRecord, inserts |-> 0,
           inserted |-> NoRecord, saveExc |-> "none", page |-> "plan"]

\* the session before anyone logged in
SessionIdle ==
    /\ routes = <<>> /\ advice = NoAdvice
    /\ user = "none" /\ agentUp = FALSE
    /\ memory = <<>> /\ ui = NoUi
    /\ tools = {} /\ trip = NoTrip /\ budgetCall = NoBudgetCall

AgentIdle ==
    /\ pc = "idle" /\ entry = "none" /\ attempt = 0 /\ iterations = 0
    /\ elapsed = 0 /\ quotaLeft = 0 /\ quotaPlan = 0 /\ llmCalls = 0
    /\ lastObs = ToolBase
    /\ outcome = [raised |-> FALSE, kind |-> "none", detail |-> <<>>, obs |-> ToolBase]

InitAgg ==
    /\ flightsTbl \in SUBSET FlightUniverse
    /\ hotelsTbl \in SUBSET HotelUniverse
    /\ placesTbl \in SUBSET PlaceUniverse
    /\ conn = "ok"
    /\ txn = "idle"
    /\ connects = 1
    /\ hasDb \in BOOLEAN
    /\ call = NoCall
    /\ AgentIdle
    /\ SessionIdle

\* the tool function is called with a query text
AggToolCall ==
    /\ call.op = "none"
    /\ \E query \in ToolQueries, k \in 0..3 :
         \E res \in SearchAllData(hasDb, query, conn, txn, FaultAt(k)) :
           /\ call' = CallRecord("search_all_data", query, res, NoRead)
           /\ txn' = res.txn
           /\ UNCHANGED <<sessionVars, storeVars, conn, connects, hasDb, agentVars>>

\* price ceilings get_hotels is called with: none, 0 and a price of the table
HotelCeilings == {NoneVal, 0, 4001}

\* the presentation layer calls the read operations directly
AggGetFlights ==
    /\ call.op = "none"
    /\ \E fault \in BOOLEAN, src \in {Pune, Goa} :
         \E r \in get_flights(conn, txn, fault, src, Goa, NoneVal, 10) :
           /\ call' = CallRecord("get_flights", <<>>, ToolBase, r)
           /\ txn' = r.txn
           /\ UNCHANGED <<sessionVars, storeVars, conn, connects, hasDb, agentVars>>

AggGetHotels ==
    /\ call.op = "none"
    /\ \E fault \in BOOLEAN, min_stars \in {0, 3, 4}, max_price \in HotelCeilings :
         \E r \in get_hotels(conn, txn, fault, Goa, min_stars, max_price, 10) :
           /\ call' = CallRecord("get_hotels", <<min_stars, max_price, 10>>, ToolBase, r)
           /\ txn' = r.txn
           /\ UNCHANGED <<sessionVars, storeVars, conn, connects, hasDb, agentVars>>

AggGetPlaces ==
    /\ call.op = "none"
    /\ \E fault \in BOOLEAN :
         \E r \in get_places(conn, txn, fault, Goa, 400, 20) :
           /\ call' = CallRecord("get_places", <<>>, ToolBase, r)
           /\ txn' = r.txn
           /\ UNCHANGED <<sessionVars, storeVars, conn, connects, hasDb, agentVars>>

\* the network or the server drops the connection
Sever ==
    /\ call.op = "none"
    /\ conn = "ok"
    /\ conn' = "severed"
    /\ UNCHANGED <<sessionVars, storeVars, txn, connects, hasDb, call, agentVars>>

\* the caller takes the returned value
AggReturn ==
    /\ call.op # "none"
    /\ pc = "idle"
    /\ call' = NoCall
    /\ UNCHANGED <<sessionVars, storeVars, conn, txn, connects, hasDb, agentVars>>

NextAgg == AggReturn \/ AggToolCall \/ AggGetFlights \/ AggGetHotels \/ AggGetPlaces \/ Sever

SpecAgg == InitAgg /\ [][NextAgg]_vars


(***************************************************************************)
(* The aggregation tool over a store that holds more rows than a report    *)
(* lists: more than 3 flights on the route, more than 3 hotels under the   *)
(* ceiling, a hotel with 6 amenities, places of 6 types and more than 3    *)
(* places of one type.                                                     *)
(***************************************************************************)
CapPlaceTypes == << <<"b","e","a","c","h">>, <<"f","o","r","t">>, <<"l","a","k","e">>,
                    <<"p","a","r","k">>, <<"c","a","v","e">>, <<"h","i","l","l">> >>

\* places of Goa, all rated above the floor of the tool, no two rated alike
CapPlaceRow(i) ==
    [id |-> i, city |-> Goa,
     type |-> CapPlaceTypes[IF i <= 6 THEN i ELSE 1],
     rating |-> 500 - 10 * i]

InitCap ==
    /\ \E nf \in 0..BigFlightRows : flightsTbl = {FlightRow(i) : i \in 1..nf}
    /\ \E nh \in 0..BigHotelRows : hotelsTbl = {HotelRow(i) : i \in 1..nh}
    /\ \E np \in 0..BigPlaceRows : placesTbl = {CapPlaceRow(i) : i \in 1..np}
    /\ conn = "ok"
    /\ txn = "idle"
    /\ connects = 1
    /\ hasDb = TRUE
    /\ call = NoCall
    /\ AgentIdle
    /\ SessionIdle

NextCap == AggReturn \/ AggToolCall

SpecCap == InitCap /\ [][NextCap]_vars


(***************************************************************************)
(* Route Advisor (app.py): the route index loaded from the flights table   *)
(* when the session starts, and get_alternative_routes over it.  The       *)
(* flights of a store are up to MaxRouteOut routes leaving Pune and up to  *)
(* MaxRouteIn routes reaching Goa from other cities, with or without a     *)
(* second flight on the first route of each kind.                          *)
(***************************************************************************)
Agra == <<"A","g","r","a">>
Bhuj == <<"B","h","u","j">>
Kota == <<"K","o","t","a">>
Leh == <<"L","e","h">>
Ooty == <<"O","o","t","y">>
Puri == <<"P","u","r","i">>
Rewa == <<"R","e","w","a">>
Salem == <<"S","a","l","e","m">>

\* the cities in the order ORDER BY puts them
RouteCities == <<Agra, Bhuj, Goa, Kota, Leh, Ooty, Pune, Puri, Rewa, Salem>>
CityRank(c) == CHOOSE k \in 1..Len(RouteCities) : RouteCities[k] = c

OutCities == <<Goa, Agra, Bhuj, Kota, Leh, Ooty, Puri, Rewa>>
InCities == <<Agra, Bhuj, Kota, Leh, Ooty, Puri, Rewa>>

RouteFlight(i, a, b) ==
    [id |-> i, from_city |-> a, to_city |-> b, departure_time |-> Stamp, price |-> 4000]

RouteFlights(nOut, nIn, twice) ==
    {RouteFlight(j, Pune, OutCities[j]) : j \in 1..nOut}
    \cup {RouteFlight(20 + j, InCities[j], Goa) : j \in 1..nIn}
    \cup (IF twice /\ nOut > 0 THEN {RouteFlight(41, Pune, OutCities[1])} ELSE {})
    \cup (IF twice /\ nIn > 0 THEN {RouteFlight(42, InCities[1], Goa)} ELSE {})

\* SELECT DISTINCT from_city, to_city, COUNT(*) ... GROUP BY from_city, to_city
\* ORDER BY from_city, to_city
RoutePairs(flights) == {<<r.from_city, r.to_city>> : r \in flights}
RouteCount(flights, p) ==
    Cardinality({r \in flights : r.from_city = p[1] /\ r.to_city = p[2]})
RouteKey(P) == [p \in P |-> CityRank(p[1]) * 100 + CityRank(p[2])]
GroupedRoutes(flights) ==
    LET P == RoutePairs(flights)
        order == CHOOSE q \in SortedSeqs(P, RouteKey(P)) : TRUE
    IN [k \in 1..Len(order) |->
          [from_city |-> order[k][1], to_city |-> order[k][2],
           flight_count |-> RouteCount(flights, order[k])]]

\* route_dict: the rows organised by source city, keys in insertion order
RECURSIVE RouteDict(_, _)
RouteDict(rows, dict) ==
    IF Len(rows) = 0 THEN dict
    ELSE LET r == Head(rows)
             item == [to |-> r.to_city, count |-> r.flight_count]
         IN RouteDict(Tail(rows),
              IF \E k \in 1..Len(dict) : dict[k].from = r.from_city
              THEN [k \in 1..Len(dict) |->
                      IF dict[k].from = r.from_city
                      THEN [dict[k] EXCEPT !.dests = Append(@, item)]
                      ELSE dict[k]]
              ELSE Append(dict, [from |-> r.from_city, dests |-> <<item>>]))

\* get_available_routes() over a reachable store
AvailableRoutes(flights) == RouteDict(GroupedRoutes(flights), <<>>)

\* check_route_availability(from_city, to_city)
check_route_availability(index, from_city, to_city) ==
    \E k \in 1..Len(index) :
        /\ index[k].from = from_city
        /\ \E j \in 1..Len(index[k].dests) : index[k].dests[j].to = to_city

\* first loop: every route leaving from_city
FromOrigin(index, from_city) ==
    IF \E k \in 1..Len(index) : index[k].from = from_city
    THEN LET e == index[CHOOSE k \in 1..Len(index) : index[k].from = from_city]
         IN [j \in 1..Len(e.dests) |->
               [from |-> from_city, to |-> e.dests[j].to, count |-> e.dests[j].count]]
    ELSE <<>>

\* variant: the second loop does not compare the destination
RECURSIVE ArrivingAt_AnyRoute(_, _, _)
ArrivingAt_AnyRoute(index, from_city, to_city) ==
    IF Len(index) = 0 THEN <<>>
    ELSE LET e == Head(index)
             hits == SelectSeq(e.dests, LAMBDA d : e.from # from_city)
         IN [j \in 1..Len(hits) |->
               [from |-> e.from, to |-> to_city, count |-> hits[j].count]]
            \o ArrivingAt_AnyRoute(Tail(index), from_city, to_city)

\* second loop: every route reaching to_city from a source other than from_city
RECURSIVE ArrivingAt(_, _, _)
ArrivingAt(index, from_city, to_city) ==
    IF Len(index) = 0 THEN <<>>
    ELSE LET e == Head(index)
             hits == SelectSeq(e.dests,
                               LAMBDA d : d.to = to_city /\ e.from # from_city)
         IN [j \in 1..Len(hits) |->
               [from |-> e.from, to |-> to_city, count |-> hits[j].count]]
            \o ArrivingAt(Tail(index), from_city, to_city)

\* variant: the list is returned whole
get_alternative_routes_Uncut(index, from_city, to_city) ==
    FromOrigin(index, from_city) \o ArrivingAt(index, from_city, to_city)

\* alternatives[:10]
get_alternative_routes(index, from_city, to_city) ==
    Take(FromOrigin(index, from_city) \o ArrivingAt(index, from_city, to_city), 10)

\* a city the store has no flight from or to
Nowhere == <<"M","a","n","d","u">>
AdvisorCities == {Pune, Goa, Agra, Nowhere}

InitRoutes ==
    /\ \E nOut \in 0..MaxRouteOut, nIn \in 0..MaxRouteIn, twice \in BOOLEAN :
         flightsTbl = RouteFlights(nOut, nIn, twice)
    /\ hotelsTbl = {}
    /\ placesTbl = {}
    /\ conn = "ok"
    /\ txn = "idle"
    /\ connects = 1
    /\ hasDb = TRUE
    /\ call = NoCall
    /\ AgentIdle
    /\ routes = AvailableRoutes(flightsTbl)
    /\ advice = NoAdvice
    /\ user = "none" /\ agentUp = FALSE
    /\ memory = <<>> /\ ui = NoUi
    /\ tools = {} /\ trip = NoTrip /\ budgetCall = NoBudgetCall

\* the trip form asks for routes around a pair of cities
Advise ==
    /\ \E from_city \in AdvisorCities, to_city \in AdvisorCities :
         advice' = [called |-> TRUE,
                    direct |-> check_route_availability(routes, from_city, to_city),
                    from_city |-> from_city, to_city |-> to_city,
                    result |-> get_alternative_routes(routes, from_city, to_city)]
    /\ UNCHANGED <<storeVars, conn, txn, connects, hasDb, call, agentVars,
                   routes, tools, trip, budgetCall, user, agentUp, memory, ui>>

NextRoutes == Advise

SpecRoutes == InitRoutes /\ [][NextRoutes]_vars


(***************************************************************************)
(* Entry points plan_trip and chat around the agent loop (agent.py)        *)
(***************************************************************************)
MaxIterations == 5         \* max_iterations
MaxExecutionTime == 90     \* max_execution_time, seconds
StopAfterAttempt == 2      \* stop_after_attempt
WaitMultiplier == 2        \* wait_exponential(multiplier=2, min=30, max=120)
WaitMin == 30
WaitMax == 120
ErrorTextCut == 200        \* str(e)[:200]

\* seconds one model turn (backend round trip plus tool call) may take
TurnSeconds == {10, 40}

\* texts a backend error may carry
ErrTexts == {<<"q","1">>, <<"q","2">>}

\* query texts the model passes to the tool
ModelQueries ==
    { JoinPipe(<<Pune, Goa, TierModerate, Fun>>),
      JoinPipe(<<NulText, Goa, TierLuxury>>),
      JoinPipe(<<Pune, Goa>>) }

RECURSIVE Pow2(_)
Pow2(n) == IF n <= 0 THEN 1 ELSE 2 * Pow2(n - 1)

\* wait_exponential: multiplier * 2^(attempt - 1), kept within [min, max]
WaitExponential(att) == Max(WaitMin, Min(WaitMultiplier * Pow2(att - 1), WaitMax))

\* variant: the loop checks the iteration count only
ShouldContinue_NoDeadline(iter, el) == iter < MaxIterations

\* AgentExecutor._should_continue, evaluated before every turn
ShouldContinue(iter, el) == iter < MaxIterations /\ el < MaxExecutionTime

NoOutcome == [raised |-> FALSE, kind |-> "none", detail |-> <<>>, obs |-> ToolBase]

\* variant: plan_trip without its generic except clause
PlanTripExcept_NoGeneric(exc, text) ==
    IF exc = "ResourceExhausted"
    THEN [NoOutcome EXCEPT !.kind = "rate_limit", !.detail = Take(text, ErrorTextCut)]
    ELSE [NoOutcome EXCEPT !.raised = TRUE, !.kind = "error", !.detail = text]

\* the two except clauses of plan_trip
PlanTripExcept(exc, text) ==
    IF exc = "ResourceExhausted"
    THEN [NoOutcome EXCEPT !.kind = "rate_limit", !.detail = Take(text, ErrorTextCut)]
    ELSE [NoOutcome EXCEPT !.kind = "error", !.detail = text]

\* the except clause of chat
ChatExcept(exc, text) == [NoOutcome EXCEPT !.kind = "error", !.detail = text]

\* the retry decorator of plan_trip: run the body again when it raised
\* ResourceExhausted and attempts are left
RetryAgain(body, exc, att) ==
    body.raised /\ exc = "ResourceExhausted" /\ att < StopAfterAttempt

\* an exception leaves agent_executor.invoke
HandleException(exc, text) ==
    LET body == IF entry = "plan_trip" THEN PlanTripExcept(exc, text)
                ELSE ChatExcept(exc, text)
    IN IF entry = "plan_trip" /\ RetryAgain(body, exc, attempt)
       THEN /\ pc' = "loop"
            /\ attempt' = attempt + 1
            /\ iterations' = 0
            /\ elapsed' = 0
            /\ lastObs' = ToolBase
            /\ outcome' = [NoOutcome EXCEPT !.kind = "retrying",
                                            !.detail = <<WaitExponential(attempt)>>]
       ELSE /\ pc' = "done"
            /\ outcome' = [body EXCEPT !.obs = lastObs]
            /\ UNCHANGED <<attempt, iterations, elapsed, lastObs>>

Init ==
    /\ flightsTbl = {FlightRow(1), FlightRow(2)}
    /\ hotelsTbl = {HotelRow(1), HotelRow(2)}
    /\ placesTbl = {PlaceRow(1)}
    /\ conn = "ok"
    /\ txn = "idle"
    /\ connects = 1
    /\ hasDb = TRUE
    /\ call = NoCall
    /\ pc = "idle" /\ entry = "none" /\ attempt = 0 /\ iterations = 0
    /\ elapsed = 0 /\ quotaLeft = 0 /\ quotaPlan = 0 /\ llmCalls = 0
    /\ lastObs = ToolBase /\ outcome = NoOutcome
    /\ routes = <<>> /\ advice = NoAdvice
    /\ user = "u1" /\ agentUp = TRUE
    /\ memory = <<>> /\ ui = NoUi
    /\ tools = create_tools(hasDb) /\ trip = NoTrip /\ budgetCall = NoBudgetCall

\* the caller invokes plan_trip or chat; the backend will signal quota
\* exhaustion on at most q of its next calls
StartRequest ==
    /\ pc = "idle"
    /\ Len(memory) < MaxMemoryTurns
    /\ \E e \in {"plan_trip", "chat"}, q \in 0..MaxQuotaFailures :
         /\ entry' = e
         /\ quotaLeft' = q
         /\ quotaPlan' = q
    /\ pc' = "loop"
    /\ attempt' = 1
    /\ iterations' = 0
    /\ elapsed' = 0
    /\ llmCalls' = 0
    /\ lastObs' = ToolBase
    /\ outcome' = NoOutcome
    /\ UNCHANGED <<sessionVars, storeVars, conn, txn, connects, hasDb, call>>

\* one turn of the loop: the model asks for the tool, and the tool's text
\* becomes the Observation
TurnToolCall ==
    /\ pc = "loop"
    /\ ShouldContinue(iterations, elapsed)
    /\ \E query \in ModelQueries, k \in {0, 2}, d \in TurnSeconds :
         \E res \in SearchAllData(hasDb, query, conn, txn, FaultAt(k)) :
           /\ llmCalls' = llmCalls + 1
           /\ txn' = res.txn
           /\ IF res.raised
              THEN HandleException("ToolError", <<>>)
              ELSE /\ lastObs' = res
                   /\ iterations' = iterations + 1
                   /\ elapsed' = elapsed + d
                   /\ UNCHANGED <<pc, attempt, outcome>>
    /\ UNCHANGED <<sessionVars, storeVars, conn, connects, hasDb, call, entry, quotaLeft, quotaPlan>>

\* variant: handle_parsing_errors is off, the parser's exception leaves
\* agent_executor.invoke
TurnMalformed_Raises ==
    /\ pc = "loop"
    /\ ShouldContinue(iterations, elapsed)
    /\ \E d \in TurnSeconds : elapsed' = elapsed + d
    /\ llmCalls' = llmCalls + 1
    /\ lastObs' = [ToolBase EXCEPT !.kind = "parse_error"]
    /\ pc' = "done"
    /\ outcome' = [NoOutcome EXCEPT !.kind = "error", !.detail = <<"p">>,
                                    !.obs = lastObs']
    /\ UNCHANGED <<sessionVars, storeVars, conn, txn, connects, hasDb, call, entry, attempt,
                   iterations, quotaLeft, quotaPlan>>

\* one turn of the loop: the model's text is neither an action nor a final
\* answer; handle_parsing_errors turns it into an Observation
TurnMalformed ==
    /\ pc = "loop"
    /\ ShouldContinue(iterations, elapsed)
    /\ \E d \in TurnSeconds : elapsed' = elapsed + d
    /\ llmCalls' = llmCalls + 1
    /\ iterations' = iterations + 1
    /\ lastObs' = [ToolBase EXCEPT !.kind = "parse_error"]
    /\ UNCHANGED <<sessionVars, storeVars, conn, txn, connects, hasDb, call, pc, entry, attempt,
                   quotaLeft, quotaPlan, outcome>>

\* the model gives its final answer
TurnFinal ==
    /\ pc = "loop"
    /\ ShouldContinue(iterations, elapsed)
    /\ llmCalls' = llmCalls + 1
    /\ pc' = "done"
    /\ outcome' = [NoOutcome EXCEPT !.kind = "final", !.obs = lastObs]
    /\ memory' = SaveContext(memory, user)
    /\ UNCHANGED <<routes, tools, trip, budgetCall, advice, user, agentUp, ui>>
    /\ UNCHANGED <<storeVars, conn, txn, connects, hasDb, call, entry, attempt,
                   iterations, elapsed, quotaLeft, quotaPlan, lastObs>>

\* a bound is exceeded: early_stopping_method="generate" asks the model
\* once more for a final answer over the steps taken
StopGenerate ==
    /\ pc = "loop"
    /\ ~ShouldContinue(iterations, elapsed)
    /\ llmCalls' = llmCalls + 1
    /\ pc' = "done"
    /\ outcome' = [NoOutcome EXCEPT !.kind = "stopped", !.obs = lastObs]
    /\ memory' = SaveContext(memory, user)
    /\ UNCHANGED <<routes, tools, trip, budgetCall, advice, user, agentUp, ui>>
    /\ UNCHANGED <<storeVars, conn, txn, connects, hasDb, call, entry, attempt,
                   iterations, elapsed, quotaLeft, quotaPlan, lastObs>>

\* the backend signals quota exhaustion on a call of the loop or on the
\* call that generates the stopped answer
BackendQuota ==
    /\ pc = "loop"
    /\ quotaLeft > 0
    /\ quotaLeft' = quotaLeft - 1
    /\ llmCalls' = llmCalls + 1
    /\ \E text \in ErrTexts : HandleException("ResourceExhausted", text)
    /\ UNCHANGED <<sessionVars, storeVars, conn, txn, connects, hasDb, call, entry, quotaPlan>>

\* any other backend call failure
BackendError ==
    /\ pc = "loop"
    /\ llmCalls' = llmCalls + 1
    /\ HandleException("BackendError", <<"e">>)
    /\ UNCHANGED <<sessionVars, storeVars, conn, txn, connects, hasDb, call, entry, quotaLeft,
                   quotaPlan>>

\* the caller takes the returned text
Finish ==
    /\ pc = "done"
    /\ pc' = "idle"
    /\ UNCHANGED <<sessionVars, storeVars, conn, txn, connects, hasDb, call, entry, attempt,
                   iterations, elapsed, quotaLeft, quotaPlan, llmCalls, lastObs,
                   outcome>>

\* the connection is lost at any time
SeverAny ==
    /\ conn = "ok"
    /\ conn' = "severed"
    /\ UNCHANGED <<sessionVars, storeVars, txn, connects, hasDb, call, agentVars>>

Next ==
    \/ StartRequest
    \/ TurnToolCall
    \/ TurnMalformed
    \/ TurnFinal
    \/ StopGenerate
    \/ BackendQuota
    \/ BackendError
    \/ Finish
    \/ SeverAny

Spec == Init /\ [][Next]_vars


(***************************************************************************)
(* The session of the presentation layer (app.py, auth.py): login, the     *)
(* agent created after the first login, requests to it, Clear Chat and     *)
(* logout.  A request is taken as one step here: its turn is stored when   *)
(* the agent loop returned, as TurnFinal and StopGenerate store it.        *)
(***************************************************************************)
Users == {"u1", "u2"}

\* the event just handled, after the one in e
UiEvent(e, op, input, cleared) ==
    [op |-> op, prev |-> e.op, input |-> input, cleared |-> e.cleared \/ cleared]

\* every turn of the buffer is from before the Clear Chat being handled
MarkOld(buffer) == [k \in 1..Len(buffer) |-> [buffer[k] EXCEPT !.old = TRUE]]

\* variant: reset_memory leaves the buffer as it is
reset_memory_Keep(buffer) == buffer

\* reset_memory: self.memory.clear()
reset_memory(buffer) == <<>>

InitSession ==
    /\ flightsTbl = {FlightRow(1), FlightRow(2)}
    /\ hotelsTbl = {HotelRow(1), HotelRow(2)}
    /\ placesTbl = {PlaceRow(1)}
    /\ conn = "ok"
    /\ txn = "idle"
    /\ connects = 1
    /\ hasDb = TRUE
    /\ call = NoCall
    /\ AgentIdle
    /\ SessionIdle

\* agent initialization after login: when the session is logged in, has a
\* store handle and no agent, TravelAgent is constructed (opening the
\* store connection of its own constructor) and agent.db is then set to
\* the session's handle
AgentInit(key, ownDb) ==
    LET a == TravelAgentInit(key, ownDb)
        run == ~agentUp /\ hasDb
    IN /\ agentUp' = (agentUp \/ (run /\ a.ok))
       /\ tools' = IF run /\ a.ok THEN a.tools ELSE tools
       /\ memory' = IF run /\ a.ok THEN <<>> ELSE memory
       /\ connects' = IF run /\ a.connected THEN connects + 1 ELSE connects

\* the login form is submitted with valid credentials; the script reruns
\* and creates the agent when the session has none and its construction
\* succeeds
Login ==
    /\ user = "none"
    /\ \E u \in Users, key \in BOOLEAN, ownDb \in BOOLEAN :
         /\ user' = u
         /\ AgentInit(key, ownDb)
    /\ ui' = UiEvent(ui, "login", <<>>, FALSE)
    /\ UNCHANGED <<storeVars, conn, txn, hasDb, call, agentVars, routes, trip, budgetCall, advice>>

\* a later rerun of the script creates the agent the session still lacks
Rerun ==
    /\ user # "none" /\ ~agentUp /\ hasDb
    /\ \E key \in BOOLEAN, ownDb \in BOOLEAN : AgentInit(key, ownDb)
    /\ UNCHANGED <<storeVars, conn, txn, hasDb, call, agentVars, routes, trip, budgetCall,
                   advice, user, ui>>

\* Generate Trip Plan or a chat input: plan_trip / chat runs to its end;
\* the chain inputs carry the buffer, and the turn is stored when invoke
\* returned
SessRequest ==
    /\ user # "none" /\ agentUp
    /\ pc = "idle"
    /\ Len(memory) < MaxMemoryTurns
    /\ \E returned \in BOOLEAN :
         memory' = IF returned THEN SaveContext(memory, user) ELSE memory
    /\ ui' = UiEvent(ui, "request", memory, FALSE)
    /\ UNCHANGED <<storeVars, conn, txn, connects, hasDb, call, agentVars, routes, tools, trip, budgetCall,
                   advice, user, agentUp>>

\* Clear Chat: chat_history = [] and, when the session has an agent,
\* agent.reset_memory()
ClearChat ==
    /\ user # "none"
    /\ memory' = IF agentUp THEN reset_memory(MarkOld(memory)) ELSE memory
    /\ ui' = UiEvent(ui, "reset", <<>>, agentUp /\ memory # <<>>)
    /\ UNCHANGED <<storeVars, conn, txn, connects, hasDb, call, agentVars, routes, tools, trip, budgetCall,
                   advice, user, agentUp>>

\* the Logout button: logout() resets logged_in, user, chat_history,
\* trip_data, ai_response and form_data
Logout ==
    /\ user # "none"
    /\ user' = "none"
    /\ ui' = UiEvent(ui, "logout", <<>>, FALSE)
    /\ UNCHANGED <<storeVars, conn, txn, connects, hasDb, call, agentVars, routes, tools, trip, budgetCall,
                   advice, agentUp, memory>>

NextSession == Login \/ Rerun \/ SessRequest \/ ClearChat \/ Logout

SpecSession == InitSession /\ [][NextSession]_vars

(***************************************************************************)
(* Generate Trip Plan (app.py) and save_user_trip (database.py).  The      *)
(* handler is followed through its three calls: the reads that fill        *)
(* trip_data, plan_trip, and the save.                                     *)
(***************************************************************************)
\* budget_map: the star floor of the budget chosen in the form
MinStarsOf(budget) ==
    IF budget = "Budget" THEN 0 ELSE IF budget = "Moderate" THEN 3
    ELSE IF budget = "Luxury" THEN 4 ELSE 0

\* texts plan_trip returns: the agent's answer, the answer generated when a
\* bound stopped the loop, and the texts of its two except clauses
PlanTripTexts ==
    {"final", "stopped",
     PlanTripExcept("ResourceExhausted", <<"q","1">>).kind,
     PlanTripExcept("BackendError", <<"e">>).kind}

\* variant: the record is built without the agent's text
TripRecord_NoAnswer(from_city, to_city, trip_data, ai_response) ==
    [source_city |-> from_city, destination_city |-> to_city,
     itinerary |-> trip_data, agent_response |-> "none"]

\* trip_record of the handler
TripRecord(from_city, to_city, trip_data, ai_response) ==
    [source_city |-> from_city, destination_city |-> to_city,
     itinerary |-> trip_data, agent_response |-> ai_response]

\* json.dumps(itinerary): the rows of SELECT * carry Decimal prices and
\* ratings and datetime stamps, which json.dumps refuses with TypeError; only
\* an itinerary of three empty lists is serialized
Serializable(itinerary) ==
    Len(itinerary.flights) = 0 /\ Len(itinerary.hotels) = 0 /\ Len(itinerary.places) = 0

\* save_user_trip(user_id, trip_data) on a connection in state (c, t); fault
\* is a server-side error hitting the INSERT.  The set of possible outcomes:
\* the exception that leaves the call, the transaction state, the number of
\* INSERT statements sent and the row written.  conn.rollback() on a lost
\* connection may raise InterfaceError or pass, as the driver has or has not
\* marked the connection closed.
save_user_trip(c, t, fault, rec) ==
    IF ~Serializable(rec.itinerary)
    THEN {[exc |-> "TypeError", txn |-> t, issued |-> 0, row |-> NoRecord]}
    ELSE LET status == ExecStatus(c, t, <<rec.source_city, rec.destination_city>>, fault)
         IN IF status = "ok"
            THEN {[exc |-> "none", txn |-> "idle", issued |-> 1, row |-> rec]}
            ELSE IF c # "ok"
            THEN {[exc |-> "InterfaceError", txn |-> t, issued |-> 1, row |-> NoRecord],
                  [exc |-> "none", txn |-> t, issued |-> 1, row |-> NoRecord]}
            ELSE {[exc |-> "none", txn |-> "idle", issued |-> 1, row |-> NoRecord]}

InitTrip ==
    /\ flightsTbl \in {{}, {FlightRow(1)}}
    /\ hotelsTbl \in {{}, {HotelRow(1)}}
    /\ placesTbl \in {{}, {PlaceRow(1)}}
    /\ conn = "ok"
    /\ txn = "idle"
    /\ connects = 1
    /\ hasDb = TRUE
    /\ call = NoCall
    /\ AgentIdle
    /\ routes = <<>> /\ advice = NoAdvice
    /\ user = "u1" /\ agentUp = TRUE
    /\ memory = <<>> /\ ui = NoUi
    /\ tools = create_tools(hasDb) /\ trip = NoTrip /\ budgetCall = NoBudgetCall

\* the button is pressed with two different cities, an agent and a store
\* handle: form_data is stored and trip_data is read from the store
TripFetch ==
    /\ trip.pc = "form"
    /\ user # "none" /\ agentUp /\ hasDb
    /\ \E budget \in {"Budget", "Moderate", "Luxury"}, k \in 0..3 :
         \E fr \in get_flights(conn, txn, FaultAt(k)[1], Pune, Goa, NoneVal, 10) :
           \E hr \in get_hotels(conn, fr.txn, FaultAt(k)[2], Goa, MinStarsOf(budget),
                                NoneVal, 10) :
             \E pr \in get_places(conn, hr.txn, FaultAt(k)[3], Goa, 400, 20) :
               /\ trip' = [trip EXCEPT !.pc = "planning",
                                       !.data = [flights |-> fr.rows, hotels |-> hr.rows,
                                                 places |-> pr.rows]]
               /\ txn' = pr.txn
    /\ UNCHANGED <<storeVars, conn, connects, hasDb, call, agentVars, routes, tools,
                   budgetCall, advice, user, agentUp, memory, ui>>

\* agent.plan_trip(query) returns its text, the agent having called its tool
\* or not; the text is stored as st.session_state.ai_response
TripPlan ==
    /\ trip.pc = "planning"
    /\ \E text \in PlanTripTexts :
         trip' = [trip EXCEPT !.pc = "saving", !.planned = TRUE, !.response = text,
                              !.stored = text]
    /\ \E tool \in BOOLEAN :
         IF tool
         THEN \E res \in SearchAllData(hasDb, JoinPipe(<<Pune, Goa, TierModerate, Fun>>),
                                       conn, txn, FaultAt(0)) : txn' = res.txn
         ELSE txn' = txn
    /\ UNCHANGED <<storeVars, conn, connects, hasDb, call, agentVars, routes, tools,
                   budgetCall, advice, user, agentUp, memory, ui>>

\* the record is built and save_user_trip is called inside try / except
\* Exception; then the page becomes 'itinerary' and the script reruns
TripSave ==
    /\ trip.pc = "saving"
    /\ \E fault \in BOOLEAN :
         LET rec == TripRecord(Pune, Goa, trip.data, trip.stored)
         IN \E s \in save_user_trip(conn, txn, fault, rec) :
              /\ trip' = [trip EXCEPT !.pc = "done",
                                      !.saveCalls = trip.saveCalls + 1,
                                      !.saveArg = rec,
                                      !.inserts = trip.inserts + s.issued,
                                      !.inserted = s.row,
                                      !.saveExc = s.exc,
                                      !.page = "itinerary"]
              /\ txn' = s.txn
    /\ UNCHANGED <<storeVars, conn, connects, hasDb, call, agentVars, routes, tools,
                   budgetCall, advice, user, agentUp, memory, ui>>

\* the user goes back to the plan page
TripBack ==
    /\ trip.pc = "done"
    /\ trip' = NoTrip
    /\ UNCHANGED <<storeVars, conn, txn, connects, hasDb, call, agentVars, routes, tools,
                   budgetCall, advice, user, agentUp, memory, ui>>

\* the connection is lost while the handler runs or between two runs
TripSever ==
    /\ conn = "ok"
    /\ conn' = "severed"
    /\ UNCHANGED <<storeVars, txn, connects, hasDb, call, agentVars, routes, tools, trip,
                   budgetCall, advice, user, agentUp, memory, ui>>

NextTrip == TripFetch \/ TripPlan \/ TripSave \/ TripBack \/ TripSever

SpecTrip == InitTrip /\ [][NextTrip]_vars


(***************************************************************************)
(* Budget calculator (tools/budget_tool.py), a pure function of its five   *)
(* integer arguments                                                       *)
(***************************************************************************)
DefaultDailyExpenses == 1500
DefaultTravelers == 1

\* variant: the number of travelers is used as given
AtLeastOne_AsGiven(n) == n

\* max(1, num_travelers)
AtLeastOne(n) == Max(1, n)

\* variant: the tenth is rounded down
IntTenth_Floor(n) == n \div 10

\* int(n * 0.1): the float product cut toward zero.  For the amounts of a trip
\* (|n| far below 2^53) the double n * 0.1 lies within 1e-4 of n/10 and never
\* below it for a multiple of 10, so the cut is that of the exact tenth.
IntTenth(n) == IF n >= 0 THEN n \div 10 ELSE 0 - ((0 - n) \div 10)

\* a // b, which raises ZeroDivisionError for b = 0
FloorDiv(a, b) == IF b > 0 THEN a \div b ELSE IF b < 0 THEN (0 - a) \div (0 - b) ELSE 0

calculate_budget(flight_price, hotel_price_per_night, num_nights, daily_expenses, num_travelers) ==
    LET travelers == AtLeastOne(num_travelers)
        flight_total == flight_price * 2 * travelers
        accommodation_total == hotel_price_per_night * num_nights
        daily_expenses_total == daily_expenses * num_nights * travelers
        subtotal == flight_total + accommodation_total + daily_expenses_total
        misc_total == IntTenth(subtotal)
        grand_total == subtotal + misc_total
    IN [called |-> TRUE,
        flight_price |-> flight_price, hotel_price_per_night |-> hotel_price_per_night,
        num_nights |-> num_nights, daily_expenses |-> daily_expenses,
        num_travelers |-> num_travelers,
        raised |-> travelers = 0,
        travelers |-> travelers,
        flight_total |-> flight_total,
        accommodation_total |-> accommodation_total,
        daily_expenses_total |-> daily_expenses_total,
        misc_total |-> misc_total,
        grand_total |-> grand_total,
        per_person |-> FloorDiv(grand_total, travelers)]

\* the integers the tool is called with
Amounts == (0 - MaxAmount)..MaxAmount

InitBudget ==
    /\ flightsTbl = {} /\ hotelsTbl = {} /\ placesTbl = {}
    /\ conn = "ok" /\ txn = "idle" /\ connects = 1 /\ hasDb = TRUE
    /\ call = NoCall
    /\ AgentIdle
    /\ SessionIdle

\* calculate_budget.invoke with five integers; daily_expenses and
\* num_travelers may be left to their defaults
BudgetInvoke ==
    /\ ~budgetCall.called
    /\ \E f \in Amounts, h \in Amounts, n \in Amounts,
          d \in Amounts \cup {DefaultDailyExpenses},
          t \in Amounts \cup {DefaultTravelers} :
         budgetCall' = calculate_budget(f, h, n, d, t)
    /\ UNCHANGED <<storeVars, conn, txn, connects, hasDb, call, agentVars,
                   routes, tools, trip, advice, user, agentUp, memory, ui>>

\* the caller takes the returned text
BudgetReturn ==
    /\ budgetCall.called
    /\ budgetCall' = NoBudgetCall
    /\ UNCHANGED <<storeVars, conn, txn, connects, hasDb, call, agentVars,
                   routes, tools, trip, advice, user, agentUp, memory, ui>>

NextBudget == BudgetInvoke \/ BudgetReturn

SpecBudget == InitBudget /\ [][NextBudget]_vars


(***************************************************************************)
(* Properties of the aggregation tool and the Query Layer                  *)
(***************************************************************************)
LinesWithTag(lines, tag) == SelectSeq(lines, LAMBDA l : l.tag = tag)
HasTag(lines, tag) == \E k \in 1..Len(lines) : lines[k].tag = tag
FieldCount(text) == Cardinality({k \in 1..Len(text) : text[k] = "|"}) + 1
IsToolCall == call.op = "search_all_data"
IsReport == IsToolCall /\ call.tool.kind = "report"
IsRead == call.op \in {"get_flights", "get_hotels", "get_places"}

\* C1: the aggregation tool never raises: it returns the 'Invalid format'
\* text for fewer than 3 fields, and for 3 or more fields a report or, when
\* something failed inside the call, the error text.
C1_ToolNeverRaises ==
    IsToolCall =>
      /\ ~call.tool.raised
      /\ call.tool.kind \in {"nodb", "invalid", "report", "error"}
      /\ (call.preDb /\ FieldCount(call.query) < 3 => call.tool.kind = "invalid")
      /\ (call.preDb /\ FieldCount(call.query) >= 3 => call.tool.kind \in {"report", "error"})

\* a failure inside a well-formed call came back as text
C1_Witness ==
    /\ IsToolCall /\ FieldCount(call.query) >= 3
    /\ call.tool.kind = "error" /\ call.tool.detail = "ValueError"

\* C5 (as claimed): a read on a severed connection reconnects exactly once
\* and succeeds, executing its statement once.
C5_ReconnectsOnce ==
    IsRead /\ call.preConn = "severed" =>
      /\ connects = call.preConnects + 1
      /\ call.read.status = "ok"
      /\ call.read.executed = 1

\* C7: the tier, trimmed and lower-cased, gives multiplier 0.7 / 1.0 / 1.5
\* (1.0 for any other value), and the hotel query carries the ceiling
\* 5000 x multiplier.
C7_Tier(text) == Lower(Strip(SplitPipe(text)[3]))
C7_Expected10(tier) ==
    CASE tier = TierBudget -> 7
      [] tier = TierModerate -> 10
      [] tier = TierLuxury -> 15
      [] OTHER -> 10
C7_BudgetCeiling ==
    IsToolCall /\ call.tool.kind \in {"report", "error"} =>
      LET m10 == C7_Expected10(C7_Tier(call.query))
      IN /\ call.tool.mult10 = m10
         /\ \A k \in 1..Len(call.tool.queries) :
              call.tool.queries[k].op = "get_hotels" =>
                /\ 10 * call.tool.queries[k].ceiling = 5000 * m10
                /\ call.tool.queries[k].ceiling \in {3500, 5000, 7500}
         /\ (call.tool.kind = "report" =>
               \E k \in 1..Len(call.tool.queries) : call.tool.queries[k].op = "get_hotels")

\* a tier written with capitals and spaces gave the luxury ceiling
C7_Witness ==
    /\ IsReport
    /\ SplitPipe(call.query)[3] # TierLuxury
    /\ call.tool.queries[2].ceiling = 7500

\* C8: the BUDGET ESTIMATE section is in the report exactly when both the
\* flights and the hotels result are non-empty; otherwise none of its lines is.
C8_BudgetTags == {"BUDGET", "round_trip", "hotel_night", "food", "transport"}
C8_BudgetIffBoth ==
    IsReport =>
      LET both == Len(call.tool.flights) > 0 /\ Len(call.tool.hotels) > 0
      IN /\ (HasTag(call.tool.lines, "BUDGET") <=> both)
         /\ (~both => \A t \in C8_BudgetTags : ~HasTag(call.tool.lines, t))

\* flights were found, no hotel was, and the section is left out
C8_Witness ==
    /\ IsReport
    /\ Len(call.tool.flights) > 0 /\ Len(call.tool.hotels) = 0
    /\ ~HasTag(call.tool.lines, "BUDGET")

\* C9: with flights and hotels both non-empty, round trip = 2 x the average
\* of the first min(2, n) flight prices, hotel per night = the average of the
\* first min(2, m) hotel prices (printed to the nearest rupee), food per day
\* = 1500 x multiplier, transport per day = 800 x multiplier.
C9_SumFirst(prices, cnt) ==
    IF cnt = 1 THEN prices[1] ELSE prices[1] + prices[2]
C9_Estimate ==
    IsReport /\ Len(call.tool.flights) > 0 /\ Len(call.tool.hotels) > 0 =>
      LET fl == call.tool.flights
          ho == call.tool.hotels
          n == IF Len(fl) < 2 THEN Len(fl) ELSE 2
          m == IF Len(ho) < 2 THEN Len(ho) ELSE 2
          fsum == C9_SumFirst([k \in 1..Len(fl) |-> fl[k].price], n)
          hsum == C9_SumFirst([k \in 1..Len(ho) |-> ho[k].price_per_night], m)
          b == call.tool.budget
          rt == LinesWithTag(call.tool.lines, "round_trip")
          hn == LinesWithTag(call.tool.lines, "hotel_night")
          fd == LinesWithTag(call.tool.lines, "food")
          tr == LinesWithTag(call.tool.lines, "transport")
      IN /\ Len(rt) = 1 /\ Len(hn) = 1 /\ Len(fd) = 1 /\ Len(tr) = 1
         /\ rt[1].n1 * n = 2 * fsum
         /\ b.avg_hotel[1] * m = b.avg_hotel[2] * hsum
         /\ 2 * hn[1].n1 * m <= 2 * hsum + m
         /\ 2 * hn[1].n1 * m >= 2 * hsum - m
         /\ 10 * fd[1].n1 = 1500 * call.tool.mult10
         /\ 10 * tr[1].n1 = 800 * call.tool.mult10

\* three flights and one hotel came back: the average is over two flights
\* and over the single hotel
C9_Witness ==
    /\ IsReport
    /\ Len(call.tool.flights) = 3 /\ Len(call.tool.hotels) = 1
    /\ HasTag(call.tool.lines, "round_trip")

\* C10 (as claimed): the flights listed are strictly ascending by price; the
\* hotels listed are by stars descending, then price ascending.
C10_HotelsOrdered(hl) ==
    \A k \in 1..(Len(hl) - 1) :
        \/ hl[k].n2 > hl[k+1].n2
        \/ (hl[k].n2 = hl[k+1].n2 /\ hl[k].n1 <= hl[k+1].n1)
C10_StrictlyAscending ==
    IsReport =>
      LET fl == LinesWithTag(call.tool.lines, "flight")
      IN /\ \A k \in 1..(Len(fl) - 1) : fl[k].n1 < fl[k+1].n1
         /\ C10_HotelsOrdered(LinesWithTag(call.tool.lines, "hotel"))

\* C10 (amended): the flights listed are in non-decreasing price order, equal
\* prices allowed; the hotels listed are by stars descending, then price
\* ascending.
C10_Ascending ==
    IsReport =>
      LET fl == LinesWithTag(call.tool.lines, "flight")
      IN /\ \A k \in 1..(Len(fl) - 1) : fl[k].n1 <= fl[k+1].n1
         /\ C10_HotelsOrdered(LinesWithTag(call.tool.lines, "hotel"))

\* a report lists three flights, two of them at the same price, and hotels
\* of different star ratings
C10_Witness ==
    /\ IsReport
    /\ LET fl == LinesWithTag(call.tool.lines, "flight")
           hl == LinesWithTag(call.tool.lines, "hotel")
       IN /\ Len(fl) = 3
          /\ \E k \in 1..2 : fl[k].n1 = fl[k+1].n1
          /\ Len(hl) >= 2 /\ hl[1].n2 # hl[Len(hl)].n2

\* C11: within one aggregation call the queries are issued one after the
\* other as get_flights, get_hotels, get_places, and the sections of every
\* report come in the order flights, hotels, attractions, budget estimate,
\* interests, in their found or their not-found form.
C11_QueryOrder == <<"get_flights", "get_hotels", "get_places">>
C11_Section(tag) ==
    CASE tag \in {"FLIGHTS", "flight", "no_flights"} -> 1
      [] tag \in {"HOTELS", "hotel", "amenities", "no_hotels"} -> 2
      [] tag \in {"ATTRACTIONS", "ptype", "place", "no_places"} -> 3
      [] tag \in C8_BudgetTags -> 4
      [] tag = "interests" -> 5
      [] OTHER -> 0
C11_FixedOrder ==
    IsToolCall =>
      LET qs == call.tool.queries
          ls == SelectSeq(call.tool.lines, LAMBDA l : l.tag # "blank")
      IN /\ Len(qs) <= 3
         /\ \A k \in 1..Len(qs) : qs[k].op = C11_QueryOrder[k]
         /\ Len(call.tool.statuses) = Len(qs)
         /\ (IsReport =>
               /\ Len(qs) = 3
               /\ \A k \in 1..Len(ls) : C11_Section(ls[k].tag) \in 1..5
               /\ \A k \in 1..(Len(ls) - 1) :
                     C11_Section(ls[k].tag) <= C11_Section(ls[k+1].tag)
               /\ \A sec \in {1, 2, 3, 5} :
                     \E k \in 1..Len(ls) : C11_Section(ls[k].tag) = sec
               /\ ls[Len(ls)].tag = "interests")

\* a report with flights listed, hotels not found, attractions listed and
\* no budget section
C11_Witness ==
    /\ IsReport
    /\ HasTag(call.tool.lines, "FLIGHTS") /\ HasTag(call.tool.lines, "no_hotels")
    /\ HasTag(call.tool.lines, "ATTRACTIONS") /\ ~HasTag(call.tool.lines, "BUDGET")

\* C12: every report holds, for flights, for hotels and for attractions,
\* exactly one of the listing header and the not-found line; the not-found
\* line is there exactly when the result is empty, and it names the cities
\* of the query.
C12_One(lines, found, notFound, items) ==
    /\ Len(LinesWithTag(lines, found)) + Len(LinesWithTag(lines, notFound)) = 1
    /\ (HasTag(lines, found) <=> HasTag(lines, items))
C12_City(text, k) == Title(Strip(SplitPipe(text)[k]))
C12_AbsenceStated ==
    IsReport =>
      LET ls == call.tool.lines
          a == C12_City(call.query, 1)
          b == C12_City(call.query, 2)
      IN /\ C12_One(ls, "FLIGHTS", "no_flights", "flight")
         /\ C12_One(ls, "HOTELS", "no_hotels", "hotel")
         /\ C12_One(ls, "ATTRACTIONS", "no_places", "place")
         /\ (HasTag(ls, "no_flights") <=> Len(call.tool.flights) = 0)
         /\ (HasTag(ls, "no_hotels") <=> Len(call.tool.hotels) = 0)
         /\ (HasTag(ls, "no_places") <=> Len(call.tool.places) = 0)
         /\ \A k \in 1..Len(ls) :
              /\ (ls[k].tag = "no_flights" => ls[k].s1 = a /\ ls[k].s2 = b)
              /\ (ls[k].tag \in {"no_hotels", "no_places"} => ls[k].s1 = b)

\* flights were listed and the hotels section is the not-found line naming
\* the destination, written in the query in another case
C12_Witness ==
    /\ IsReport
    /\ HasTag(call.tool.lines, "flight")
    /\ SplitPipe(call.query)[2] # Goa
    /\ \E k \in 1..Len(call.tool.lines) :
         call.tool.lines[k].tag = "no_hotels" /\ call.tool.lines[k].s1 = Goa

\* C13: a report lists at most 3 flights, at most 3 hotels with at most 5
\* amenities each, and attractions under at most 5 categories with at most
\* 3 places under each, whatever the queries returned.
C13_Run(lines, k, tag) ==
    k + 3 <= Len(lines) /\ \A j \in k..(k + 3) : lines[j].tag = tag
C13_Capped ==
    IsReport =>
      LET ls == call.tool.lines
      IN /\ Len(LinesWithTag(ls, "flight")) <= 3
         /\ Len(LinesWithTag(ls, "hotel")) <= 3
         /\ \A k \in 1..Len(ls) : ls[k].tag = "amenities" => Len(ls[k].list) <= 5
         /\ Len(LinesWithTag(ls, "ptype")) <= 5
         /\ \A k \in 1..Len(ls) : ~C13_Run(ls, k, "place")
         /\ Len(LinesWithTag(ls, "amenities")) = Len(LinesWithTag(ls, "hotel"))

\* the queries returned 5 flights, 4 hotels, one of them with 6 amenities,
\* and places of 6 types with 4 places of one type; the report lists 3
\* flights, 3 hotels, a list of 5 amenities, 5 categories and 3 places under
\* the first category
C13_Witness ==
    /\ IsReport
    /\ LET ls == call.tool.lines
           t == call.tool
       IN /\ Len(t.flights) = 5 /\ Len(LinesWithTag(ls, "flight")) = 3
          /\ Len(t.hotels) > 3 /\ Len(LinesWithTag(ls, "hotel")) = 3
          /\ \E k \in 1..3 : Len(SplitComma(t.hotels[k].amenities)) > 5
          /\ \E k \in 1..Len(ls) : ls[k].tag = "amenities" /\ Len(ls[k].list) = 5
          /\ Len(TypeOrder(t.places, <<>>)) > 5 /\ Len(LinesWithTag(ls, "ptype")) = 5
          /\ Len(PlacesOfType(t.places, CapPlaceTypes[1])) > 3
          /\ \E k \in 1..Len(ls) :
               /\ ls[k].tag = "ptype" /\ ls[k].s1 = CapPlaceTypes[1]
               /\ \A j \in (k + 1)..(k + 3) : ls[j].tag = "place"

\* C14: a read operation (get_flights, get_hotels, get_places) whose
\* statement hits a store error (lost connection, failing statement, aborted
\* transaction) returns the empty list and raises nothing, called directly
\* or from the aggregation tool.
C14_StoreErrors == {"OperationalError", "QueryError", "InFailedSqlTransaction"}
C14_ToolRows == <<call.tool.flights, call.tool.hotels, call.tool.places>>
C14_EmptyOnError ==
    /\ (IsRead /\ call.read.status \in C14_StoreErrors =>
          call.read.rows = <<>> /\ call.read.exc = "none")
    /\ (IsToolCall =>
          \A k \in 1..Len(call.tool.statuses) :
            call.tool.statuses[k] \in C14_StoreErrors =>
              /\ C14_ToolRows[k] = <<>>
              /\ (call.tool.kind = "error" => call.tool.detail # call.tool.statuses[k]))

\* get_flights was called on a lost connection for a route the store holds
\* flights for and handed back the empty list
C14_Witness ==
    /\ call.op = "get_flights" /\ call.preConn = "severed"
    /\ call.read.status = "OperationalError"
    /\ \E r \in flightsTbl : r.to_city = Goa
    /\ call.read.rows = <<>> /\ call.read.exc = "none"

\* C15 (as claimed): when one query of an aggregation fails on a live
\* connection, only its own section turns into the not-found line: the
\* sections of the queries issued after it still list what the store holds.
C15_HoldsHotels(city, ceiling) ==
    \E r \in hotelsTbl :
        Lower(r.city) = Lower(city) /\ r.stars >= 3 /\ r.price_per_night <= ceiling
C15_HoldsPlaces(city) ==
    \E r \in placesTbl : Lower(r.city) = Lower(city) /\ r.rating >= 350
C15_OnlyOwnSection ==
    IsReport /\ call.preConn = "ok" /\ call.preTxn # "failed" /\ conn = "ok" =>
      LET t == call.tool
      IN \A k \in 1..3 :
           t.statuses[k] = "QueryError" =>
             /\ (k < 2 /\ C15_HoldsHotels(t.to_city, t.queries[2].ceiling)
                   => HasTag(t.lines, "HOTELS"))
             /\ (k < 3 /\ C15_HoldsPlaces(t.to_city)
                   => HasTag(t.lines, "ATTRACTIONS"))

\* C16 (as claimed): the aggregation returns an error text in place of a
\* report only for fewer than 3 fields or when the store is unavailable as a
\* whole: with 3 or more fields (city names the driver accepts) and a live
\* connection it returns a report whatever rows came back, and with the
\* connection lost it returns the error text, not a report of not-found
\* lines.
C16_ErrorOnlyWhenUnusable ==
    IsToolCall =>
      /\ (~call.preDb => call.tool.kind = "nodb")
      /\ (call.preDb /\ FieldCount(call.query) < 3 => call.tool.kind = "invalid")
      /\ (call.preDb /\ FieldCount(call.query) >= 3 =>
            /\ (call.preConn = "ok" /\ ~HasNul(call.query) => call.tool.kind = "report")
            /\ (call.preConn = "severed" => call.tool.kind = "error"))


(***************************************************************************)
(* Properties of the Route Advisor                                         *)
(***************************************************************************)
\* the number of flights the store holds from a to b
FlightsOn(a, b) == Cardinality({r \in flightsTbl : r.from_city = a /\ r.to_city = b})

\* C17: the list get_alternative_routes returns has at most 10 entries, and
\* no entry that leaves another city comes before an entry that leaves the
\* requested origin.
C17_CappedOriginFirst ==
    advice.called =>
      LET res == advice.result
      IN /\ Len(res) <= 10
         /\ \A j \in 1..Len(res) : \A k \in (j + 1)..Len(res) :
              res[k].from = advice.from_city => res[j].from = advice.from_city

\* the store holds 6 routes leaving the origin and 6 reaching the
\* destination from elsewhere; the list has 10 entries, the 6 from the
\* origin first
C17_Witness ==
    /\ advice.called
    /\ Cardinality({r \in flightsTbl : r.from_city = advice.from_city}) >= 6
    /\ Cardinality({r \in flightsTbl :
                      r.to_city = advice.to_city /\ r.from_city # advice.from_city}) >= 6
    /\ Len(advice.result) = 10
    /\ advice.result[6].from = advice.from_city
    /\ advice.result[7].from # advice.from_city

\* C18: every entry of the list is a route the store has flights on, with
\* the number of those flights as its count, and it either leaves the
\* requested origin or reaches the requested destination from another city;
\* with no route leaving the origin and none reaching the destination the
\* list is empty.
C18_RoutesOfIndex ==
    advice.called =>
      LET res == advice.result
          a == advice.from_city
          b == advice.to_city
      IN /\ \A k \in 1..Len(res) :
              /\ res[k].count > 0
              /\ res[k].count = FlightsOn(res[k].from, res[k].to)
              /\ \/ res[k].from = a
                 \/ (res[k].to = b /\ res[k].from # a)
         /\ ((\A r \in flightsTbl : r.from_city # a /\ r.to_city # b) => res = <<>>)

\* the origin has a direct route to the destination, flown twice: it is
\* listed once, with count 2, among the routes leaving the origin, and a
\* route reaching the destination from another city follows
C18_Witness ==
    /\ advice.called /\ advice.direct
    /\ FlightsOn(advice.from_city, advice.to_city) = 2
    /\ \E k \in 1..Len(advice.result) :
         /\ advice.result[k].from = advice.from_city
         /\ advice.result[k].to = advice.to_city
         /\ advice.result[k].count = 2
    /\ \E k \in 1..Len(advice.result) : advice.result[k].from # advice.from_city


(***************************************************************************)
(* Properties of plan_trip, chat and the agent loop                        *)
(***************************************************************************)
IsDone == pc = "done"
BoundExceeded == ~(iterations < MaxIterations /\ elapsed < MaxExecutionTime)

\* C2 (as claimed): plan_trip gives the rate-limit message only after it has
\* retried: a backend that signals quota exhaustion once and answers from
\* then on yields the plan.
C2_RetriesTurn ==
    IsDone /\ entry = "plan_trip" =>
      /\ (quotaPlan = 1 => outcome.kind # "rate_limit")
      /\ (outcome.kind = "rate_limit" => attempt > 1)

\* C3 (as claimed): the rate-limit message comes once the configured number
\* of attempts is used up, and its text is the same whatever the backend
\* error carried.
C3_FixedMessage ==
    IsDone /\ entry = "plan_trip" /\ outcome.kind = "rate_limit" =>
      /\ ~outcome.raised
      /\ attempt = StopAfterAttempt
      /\ outcome.detail = <<>>

\* C4 (as claimed): when the iteration bound or the deadline is exceeded the
\* request ends with the best-effort answer over the most recent Observation.
C4_AbortIsBestEffort ==
    IsDone /\ BoundExceeded =>
      outcome.kind = "stopped" /\ outcome.obs = lastObs

\* C4 (amended): the loop takes at most 5 turns and starts no turn at or
\* after the deadline; when a bound is exceeded one more backend call
\* generates the best-effort answer over the steps taken, and the request
\* ends with that answer, or with the error / rate-limit text when that
\* last call fails.
C4_BoundedLoop ==
    /\ iterations <= MaxIterations
    /\ (iterations > 0 => \E d \in TurnSeconds : elapsed - d < MaxExecutionTime)
    /\ llmCalls <= attempt * (MaxIterations + 1)
    /\ (IsDone /\ BoundExceeded =>
          \/ (outcome.kind = "stopped" /\ outcome.obs = lastObs)
          \/ outcome.kind \in {"error", "rate_limit"})
    /\ (IsDone /\ outcome.kind = "stopped" => BoundExceeded)

\* the deadline stopped the loop before the iteration bound, and the
\* request ended with the answer generated over a report
C4_Witness ==
    /\ IsDone /\ outcome.kind = "stopped"
    /\ iterations < MaxIterations /\ elapsed >= MaxExecutionTime
    /\ outcome.obs.kind = "report"

\* C6: plan_trip and chat hand a text to the caller whatever fails in the
\* backend or the store; no exception leaves them.
C6_NeverEscapes ==
    IsDone =>
      /\ ~outcome.raised
      /\ outcome.kind \in {"final", "stopped", "rate_limit", "error"}

\* plan_trip returned its error text after the store was lost, the tool
\* reported its failure as an Observation and the backend call then failed
C6_Witness ==
    /\ IsDone /\ entry = "plan_trip" /\ outcome.kind = "error"
    /\ conn = "severed" /\ outcome.obs.kind \in {"report", "error"}
    /\ ~outcome.raised


(***************************************************************************)
(* Properties of the session and the conversational memory                 *)
(***************************************************************************)
\* C19: after reset_memory the buffer is empty and a new request is
\* accepted; neither the buffer nor the chain inputs of a request ever hold
\* a turn recorded before a reset.
C19_NoOld(buffer) == \A k \in 1..Len(buffer) : ~buffer[k].old
C19_FreshAfterReset ==
    /\ C19_NoOld(memory)
    /\ (ui.op = "request" => C19_NoOld(ui.input))
    /\ (ui.op = "reset" /\ agentUp => memory = <<>> /\ ENABLED SessRequest)

\* a Clear Chat emptied a buffer that held a turn, and the request after it
\* started from an empty buffer and stored its own turn
C19_Witness ==
    /\ ui.op = "request" /\ ui.prev = "reset" /\ ui.cleared
    /\ ui.input = <<>>
    /\ Len(memory) = 1

\* C20 (as claimed): the buffer does not outlive a logout: the first
\* request after a login finds it empty, and no request is handed a turn
\* recorded for another user.
C20_DestroyedOnLogout ==
    ui.op = "request" =>
      /\ (ui.prev = "login" => ui.input = <<>>)
      /\ \A k \in 1..Len(ui.input) : ui.input[k].owner = user

\* C21 (as claimed): a session opens one store connection and no second
\* one while it lasts, whatever the presentation layer, the authentication
\* layer and the agent do.
C21_OneConnection == connects = 1

\* C25: when the session has an agent and a store handle, the agent's tools
\* are exactly the one tool search_all_travel_data.
C25_ExactlyOneTool ==
    agentUp /\ hasDb => tools = {ToolName} /\ Cardinality(tools) = 1

\* the agent was constructed after a login, with a store handle, and has
\* handled a request
C25_Witness ==
    /\ agentUp /\ user # "none" /\ tools = {ToolName}
    /\ connects = 2
    /\ ui.op = "request"

(***************************************************************************)
(* Properties of the Query Layer's transactions, of the descriptor and of  *)
(* the amenities text                                                      *)
(***************************************************************************)
\* C22 (as claimed): every access to the store connection is scoped, so when
\* a Query Layer read has returned the shared connection holds no open and
\* no failed transaction.
C22_NoTransactionLeft == IsRead => txn = "idle"

\* other ways of typing the cities a and b: lower case, upper case, padded
\* with spaces
C23_Upper(s) == [i \in 1..Len(s) |-> UpperChar(s[i])]
C23_Padded(s) == <<" ">> \o s \o <<" ", " ">>
C23_Spellings(a, b) ==
    { <<Lower(a), C23_Upper(b)>>, <<C23_Upper(a), C23_Padded(Lower(b))>>,
      <<C23_Padded(a), b>> }

\* the server-side error that hit the call, as its statuses tell
C23_Faults(res) ==
    [j \in 1..3 |-> j <= Len(res.statuses) /\ res.statuses[j] = "QueryError"]

\* the descriptor with its two cities typed as a and b
C23_Respelled(parts, a, b) == JoinPipe(<<a, b>> \o SubSeq(parts, 3, Len(parts)))

\* C23: the cities of the descriptor are trimmed and brought to one form
\* that does not depend on letter case before any lookup: a descriptor whose
\* cities are typed in another case or with surrounding spaces issues the same
\* lookups and yields the same report; the interests are the empty text when
\* the descriptor has no fourth field.
C23_Normalized ==
    IsToolCall /\ call.preDb /\ FieldCount(call.query) >= 3 =>
      LET parts == SplitPipe(call.query)
          res == call.tool
      IN /\ \A ab \in C23_Spellings(parts[1], parts[2]) :
              res \in SearchAllData(call.preDb, C23_Respelled(parts, ab[1], ab[2]),
                                    call.preConn, call.preTxn, C23_Faults(res))
         /\ res.from_city = Strip(res.from_city)
         /\ res.to_city = Strip(res.to_city)
         /\ \A j \in 1..Len(res.queries) :
              res.queries[j].a = (IF j = 1 THEN res.from_city ELSE res.to_city)
         /\ (FieldCount(call.query) = 3 =>
               /\ res.interests = <<>>
               /\ \A j \in 1..Len(res.lines) :
                    res.lines[j].tag = "interests" => res.lines[j].s1 = <<>>)

\* a report with flights and hotels for a three-field descriptor whose cities
\* were typed padded and in another case than the lookups used
C23_Witness ==
    /\ IsReport
    /\ FieldCount(call.query) = 3
    /\ SplitPipe(call.query)[1] # call.tool.from_city
    /\ SplitPipe(call.query)[2] # call.tool.to_city
    /\ Len(call.tool.flights) > 0 /\ Len(call.tool.hotels) > 0
    /\ HasTag(call.tool.lines, "interests")

\* the two stored forms of the amenities w and p
C24_JsonForm == HotelAmenities[1]
C24_CommaForm == HotelAmenities[2]

\* C24 (as claimed): a hotel whose amenities are stored as a JSON-encoded list
\* and a hotel whose amenities are stored as a comma-delimited text with the
\* same items are rendered with the same amenity items.
C24_BothFormsAlike ==
    IsReport =>
      LET shown == LinesWithTag(call.tool.lines, "amenities")
      IN \A k \in 1..Len(shown) :
           call.tool.hotels[k].amenities \in {C24_JsonForm, C24_CommaForm}
             => shown[k].list = << <<"w">>, <<"p">> >>

(***************************************************************************)
(* Properties of the budget calculator                                     *)
(***************************************************************************)
\* the parts of the breakdown that C26 states alike in both of its readings
C26_Sums(b) ==
    LET t == IF b.num_travelers < 1 THEN 1 ELSE b.num_travelers IN
    /\ ~b.raised
    /\ b.travelers = t
    /\ b.flight_total = b.flight_price * 2 * t
    /\ b.accommodation_total = b.hotel_price_per_night * b.num_nights
    /\ b.daily_expenses_total = b.daily_expenses * b.num_nights * t
    /\ b.grand_total = b.flight_total + b.accommodation_total
                       + b.daily_expenses_total + b.misc_total
    /\ b.per_person * t <= b.grand_total
    /\ b.grand_total < (b.per_person + 1) * t

C26_Sum(b) == b.flight_total + b.accommodation_total + b.daily_expenses_total

\* C26 (as claimed): for all integer inputs the breakdown is returned without
\* raising, travelers below 1 count as 1, the three totals are the products
\* named, miscellaneous is the floor of 10% of their sum, the grand total adds
\* it and the cost per person is the floor of the grand total by travelers.
C26_FloorTenth ==
    budgetCall.called =>
      /\ C26_Sums(budgetCall)
      /\ 10 * budgetCall.misc_total <= C26_Sum(budgetCall)
      /\ C26_Sum(budgetCall) < 10 * (budgetCall.misc_total + 1)

\* C26 (amended): as claimed, but miscellaneous is 10% of the sum cut toward
\* zero: its floor when the sum is not negative, its ceiling when it is.
C26_CutTenth ==
    budgetCall.called =>
      LET s == C26_Sum(budgetCall)
          m == budgetCall.misc_total
      IN /\ C26_Sums(budgetCall)
         /\ (s >= 0 => 10 * m <= s /\ s < 10 * (m + 1))
         /\ (s < 0 => 10 * (m - 1) < s /\ s <= 10 * m)

\* a call with no travelers and a negative sum that is no multiple of 10
C26_Witness ==
    /\ budgetCall.called
    /\ budgetCall.num_travelers < 1
    /\ C26_Sum(budgetCall) < 0
    /\ C26_Sum(budgetCall) % 10 # 0

(***************************************************************************)
(* Properties of the agent loop: malformed model output                    *)
(***************************************************************************)
\* a turn of the loop that ended in the Observation of a parsing error
C27_MalformedTurn == elapsed' > elapsed /\ lastObs'.kind = "parse_error"

\* C27: malformed model output does not end or fail the request: the turn
\* leaves the request running with nothing handed to the caller, counts one
\* iteration, and the model is asked again; while the loop may go on, a final
\* answer of the model then ends the request with that answer, and once a
\* bound of the loop is reached the answer generated for the stop does.
C27_MalformedIsNoOp ==
    /\ [][C27_MalformedTurn =>
            /\ pc' = "loop"
            /\ outcome' = outcome
            /\ attempt' = attempt
            /\ iterations' = iterations + 1
            /\ llmCalls' = llmCalls + 1]_vars
    /\ [](pc = "loop" /\ lastObs.kind = "parse_error" =>
            /\ iterations >= 1
            /\ (iterations < MaxIterations /\ elapsed < MaxExecutionTime =>
                  /\ ENABLED (TurnFinal /\ outcome'.kind = "final" /\ ~outcome'.raised
                                 /\ outcome'.obs = lastObs)
                  /\ ENABLED TurnMalformed)
            /\ ENABLED ((TurnFinal \/ StopGenerate)
                          /\ outcome'.kind \in {"final", "stopped"} /\ ~outcome'.raised))

\* the model's final answer ended a request whose fourth turn, the last
\* before it, was malformed
C27_Witness ==
    /\ pc = "done"
    /\ outcome.kind = "final"
    /\ outcome.obs.kind = "parse_error"
    /\ iterations = MaxIterations - 1

(***************************************************************************)
(* Properties of get_hotels and of rejected aggregation calls              *)
(***************************************************************************)
\* C28 (as claimed): when get_hotels is given a price ceiling, 0 included,
\* every hotel returned is of the city asked for whatever the letter case,
\* has at least min_stars stars and a price not above the ceiling, and at most
\* limit hotels are returned.
C28_CeilingKept ==
    call.op = "get_hotels" /\ call.query[2] # NoneVal =>
      LET rows == call.read.rows
      IN /\ Len(rows) <= call.query[3]
         /\ \A k \in 1..Len(rows) :
              /\ Lower(rows[k].city) = Lower(Goa)
              /\ rows[k].stars >= call.query[1]
              /\ rows[k].price_per_night <= call.query[2]

\* C29: an aggregation call that is rejected, for fewer than 3 fields or for
\* want of a store handle, issues no Query Layer call and leaves the state of
\* the store connection as it found it.
C29_RejectedTouchesNothing ==
    IsToolCall /\ (~call.preDb \/ FieldCount(call.query) < 3) =>
      /\ call.tool.kind \in {"nodb", "invalid"}
      /\ call.tool.queries = <<>>
      /\ call.tool.executed = 0
      /\ txn = call.preTxn
      /\ conn = call.preConn
      /\ connects = call.preConnects

\* a descriptor of one field is rejected on a connection that an earlier read
\* left inside a transaction
C29_Witness ==
    /\ IsToolCall /\ call.preDb
    /\ FieldCount(call.query) = 1 /\ Len(call.query) > 0
    /\ call.tool.kind = "invalid"
    /\ call.preTxn = "open" /\ txn = "open"

(***************************************************************************)
(* Properties of Generate Trip Plan                                        *)
(***************************************************************************)
\* C30: in one run of Generate Trip Plan save_user_trip is called once and
\* not before plan_trip has returned, with the text plan_trip returned as the
\* agent response of the record, an error or rate-limit text included; the
\* row written, if one is, carries that text; and whatever the save did, the
\* run ends with the response stored in the session and the itinerary page.
C30_SavedOnceAfterPlan ==
    /\ trip.saveCalls <= 1 /\ trip.inserts <= trip.saveCalls
    /\ (~trip.planned => trip.saveCalls = 0 /\ trip.stored = "none")
    /\ (trip.planned => trip.stored = trip.response /\ trip.response \in PlanTripTexts)
    /\ (trip.saveCalls = 1 =>
          /\ trip.planned
          /\ trip.saveArg.agent_response = trip.response
          /\ trip.saveArg.itinerary = trip.data)
    /\ (trip.inserted # NoRecord => trip.inserted = trip.saveArg)
    /\ (trip.pc = "done" <=> trip.saveCalls = 1)
    /\ (trip.pc = "done" => trip.page = "itinerary" /\ trip.stored = trip.response)

\* a run whose plan_trip returned the rate-limit text and whose save failed
\* on serializing the rows found: the text is in the session and the page is
\* the itinerary
C30_Witness ==
    /\ trip.pc = "done"
    /\ trip.response = "rate_limit"
    /\ trip.saveExc = "TypeError"
    /\ Len(trip.data.flights) > 0
    /\ trip.inserts = 0
    /\ trip.stored = "rate_limit" /\ trip.page = "itinerary"

====
